---- MODULE Spec2Model ----
(***************************************************************************)
(* Model of jobflow_remote.remote.host.remote.RemoteHost: one host object  *)
(* wrapping a fabric.Connection, the remote machine's filesystem, and the  *)
(* operations execute, mkdir, write_text_file, connect, close,             *)
(* is_connected, put, get, copy and __eq__.                                *)
(*                                                                         *)
(* Python strings are sequences of one-character strings, so that joining, *)
(* shell quoting and the remote shell's word splitting are computed and    *)
(* not assumed.  None is the empty sequence; an optional integer n is <<n>>.*)
(***************************************************************************)
EXTENDS Integers, Sequences, FiniteSets, TLC

VARIABLES hosts, remote_dirs, remote_files, local_files, last

vars == <<hosts, remote_dirs, remote_files, local_files, last>>

\* ---------------------------------------------------------------- bounds
MaxCmdLen == 3
MaxTokens == 2

\* ------------------------------------------------------- string helpers
\* a local name: Body with v for its parameter (v is computed once)
Bind(v, Body(_)) == Body(v)

None == <<>>

\* bool(s) of a str or None
TruthyStr(s) == s # <<>>

\* bool(v) of an int or None
TruthyInt(v) == v # <<>> /\ v[1] # 0

SP == " "
SQ == "'"
DQ == "\""
BS == "\\"

s_mkdir == <<"m", "k", "d", "i", "r">>
s_cp == <<"c", "p">>
s_p == <<"-", "p">>
s_l == <<"-", "l">>
s_c == <<"-", "c">>
s_dot == <<".">>
s_bash == <<"b", "a", "s", "h">>

RECURSIVE JoinWith(_, _)
\* sep.join(tokens)
JoinWith(sep, tokens) ==
    IF tokens = <<>> THEN <<>>
    ELSE IF Len(tokens) = 1 THEN tokens[1]
    ELSE tokens[1] \o sep \o JoinWith(sep, Tail(tokens))

RECURSIVE SplitOn(_, _)
\* s.split(ch): the maximal runs between occurrences of ch
SplitOn(ch, s) ==
    IF \A i \in 1..Len(s) : s[i] # ch THEN <<s>>
    ELSE Bind(CHOOSE i \in 1..Len(s) : s[i] = ch /\ \A j \in 1..(i-1) : s[j] # ch,
              LAMBDA k : <<SubSeq(s, 1, k-1)>> \o SplitOn(ch, SubSeq(s, k+1, Len(s))))

\* characters shlex.quote leaves alone: [\w@%+=:,./-] (ASCII)
SafeChars ==
    {"a", "b", "c", "d", "e", "f", "g", "h", "i", "j", "k", "l", "m", "n", "o",
     "p", "q", "r", "s", "t", "u", "v", "w", "x", "y", "z",
     "0", "1", "2", "3", "4", "5", "6", "7", "8", "9", "_",
     "@", "%", "+", "=", ":", ",", ".", "/", "-"}

RECURSIVE ReplaceQuote(_)
\* s.replace("'", "'\"'\"'")
ReplaceQuote(s) ==
    IF s = <<>> THEN <<>>
    ELSE (IF Head(s) = SQ THEN <<SQ, DQ, SQ, DQ, SQ>> ELSE <<Head(s)>>)
         \o ReplaceQuote(Tail(s))

\* shlex.quote(s)
ShlexQuote(s) ==
    IF s = <<>> THEN <<SQ, SQ>>
    ELSE IF \A i \in 1..Len(s) : s[i] \in SafeChars THEN s
    ELSE <<SQ>> \o ReplaceQuote(s) \o <<SQ>>

RECURSIVE Lex(_, _, _, _, _, _)
\* Word splitting of a POSIX shell: blanks separate words, '...' is literal,
\* "..." is literal except for \" and \\, a backslash outside quotes makes
\* the next character literal.  mode is "n" (unquoted), "s" or "d".
Lex(s, i, mode, cur, inword, acc) ==
    IF i > Len(s)
    THEN [ok |-> mode = "n", words |-> IF inword THEN Append(acc, cur) ELSE acc]
    ELSE LET c == s[i] IN
         IF mode = "s"
         THEN IF c = SQ THEN Lex(s, i+1, "n", cur, TRUE, acc)
              ELSE Lex(s, i+1, "s", Append(cur, c), TRUE, acc)
         ELSE IF mode = "d"
         THEN IF c = DQ THEN Lex(s, i+1, "n", cur, TRUE, acc)
              ELSE IF c = BS /\ i < Len(s) /\ s[i+1] \in {DQ, BS}
                   THEN Lex(s, i+2, "d", Append(cur, s[i+1]), TRUE, acc)
              ELSE Lex(s, i+1, "d", Append(cur, c), TRUE, acc)
         ELSE IF c = SP
              THEN Lex(s, i+1, "n", <<>>, FALSE, IF inword THEN Append(acc, cur) ELSE acc)
              ELSE IF c = SQ THEN Lex(s, i+1, "s", cur, TRUE, acc)
              ELSE IF c = DQ THEN Lex(s, i+1, "d", cur, TRUE, acc)
              ELSE IF c = BS
                   THEN IF i < Len(s)
                        THEN Lex(s, i+2, "n", Append(cur, s[i+1]), TRUE, acc)
                        ELSE [ok |-> FALSE, words |-> acc]
              ELSE Lex(s, i+1, "n", Append(cur, c), TRUE, acc)

ShellSplit(s) == Lex(s, 1, "n", <<>>, FALSE, <<>>)

\* ------------------------------------------------- command construction
\* A command argument is a str or a list of str.
StrCmd(s) == [type |-> "str", str |-> s]
ListCmd(ts) == [type |-> "list", tokens |-> ts]

\* isinstance(command, (list, tuple)) -> " ".join(command)
JoinCommand(command) ==
    IF command.type = "list" THEN JoinWith(<<SP>>, command.tokens) ELSE command.str

\* quoting that forgets the quotes inside the command
QuoteArg_naive(command) == <<SQ>> \o command \o <<SQ>>

\* the argument of " -c ": the command made one shell word
QuoteArg(command) == ShlexQuote(command)

\* the string handed to connection.run
remote_command(self, command) ==
    IF TruthyStr(self.shell_cmd)
    THEN LET s1 == self.shell_cmd
             s2 == IF self.login_shell THEN s1 \o <<SP>> \o s_l \o <<SP>> ELSE s1
             s3 == s2 \o <<SP>> \o s_c \o <<SP>>
         IN s3 \o QuoteArg(command)
    ELSE command

\* ------------------------------------------------ the remote machine
\* Paths are relative to the login directory ".", which always exists.
IsComponent(c) == c # <<>> /\ c # s_dot

NormPath(p) ==
    Bind(SelectSeq(SplitOn("/", p), IsComponent), LAMBDA comps :
        IF comps = <<>> THEN s_dot ELSE JoinWith(<<"/">>, comps))

Resolve(dir, p) == NormPath(dir \o <<"/">> \o p)

Components(p) == SelectSeq(SplitOn("/", p), IsComponent)

Parent(p) ==
    Bind(Components(p), LAMBDA comps :
        IF Len(comps) <= 1 THEN s_dot
        ELSE JoinWith(<<"/">>, SubSeq(comps, 1, Len(comps) - 1)))

Basename(p) ==
    Bind(Components(p), LAMBDA comps :
        IF comps = <<>> THEN s_dot ELSE comps[Len(comps)])

\* p and every ancestor of p below the login directory
Ancestors(p) ==
    Bind(Components(p), LAMBDA comps :
        {JoinWith(<<"/">>, SubSeq(comps, 1, k)) : k \in 1..Len(comps)})

DirExists(dirs, p) == p = s_dot \/ p \in dirs

IsOption(w) == w # <<>> /\ w[1] = "-"

IsOperand(w) == ~IsOption(w)

RECURSIVE MkdirEach(_, _, _, _, _, _)
\* mkdir [-p] operand...: each operand in turn; the exit status is 1 when
\* any operand failed.
MkdirEach(ops, parents, dir, dirs, files, failed) ==
    IF ops = <<>> THEN [dirs |-> dirs, failed |-> failed]
    ELSE Bind(Resolve(dir, Head(ops)), LAMBDA t :
         IF parents
         THEN Bind(Ancestors(t), LAMBDA up :
              IF up \cap DOMAIN files # {}
              THEN MkdirEach(Tail(ops), parents, dir, dirs, files, TRUE)
              ELSE MkdirEach(Tail(ops), parents, dir, dirs \cup up, files, failed))
         ELSE IF DirExists(dirs, t) \/ t \in DOMAIN files \/ ~DirExists(dirs, Parent(t))
              THEN MkdirEach(Tail(ops), parents, dir, dirs, files, TRUE)
              ELSE MkdirEach(Tail(ops), parents, dir, dirs \cup {t}, files, failed))

Completed(dirs, files, exited) ==
    [dirs |-> dirs, files |-> files, exited |-> exited,
     stdout |-> IF exited = 0 THEN <<"o">> ELSE <<>>,
     stderr |-> IF exited = 0 THEN <<>> ELSE <<"e">>]

\* the mkdir utility
BinMkdir(argv, dir, dirs, files) ==
    Bind(SelectSeq(Tail(argv), IsOperand), LAMBDA ops :
    Bind(\E i \in 2..Len(argv) : argv[i] = s_p, LAMBDA parents :
        IF ops = <<>> THEN Completed(dirs, files, 1)
        ELSE Bind(MkdirEach(ops, parents, dir, dirs, files, FALSE), LAMBDA r :
                  Completed(r.dirs, files, IF r.failed THEN 1 ELSE 0))))

\* the cp utility on regular files
BinCp(argv, dir, dirs, files) ==
    Bind(SelectSeq(Tail(argv), IsOperand), LAMBDA ops :
    IF Len(ops) # 2 THEN Completed(dirs, files, 1)
    ELSE Bind(Resolve(dir, ops[1]), LAMBDA src :
         Bind(Resolve(dir, ops[2]), LAMBDA dst :
         Bind(IF DirExists(dirs, dst) THEN Resolve(dst, Basename(src)) ELSE dst,
              LAMBDA target :
            IF src \notin DOMAIN files \/ ~DirExists(dirs, Parent(target))
            THEN Completed(dirs, files, 1)
            ELSE Completed(dirs, (target :> files[src]) @@ files, 0)))))

\* one simple command; a program other than mkdir and cp leaves the
\* filesystem alone and exits with the status the environment chooses
ExecArgv(argv, dir, dirs, files, exit) ==
    IF argv = <<>> THEN Completed(dirs, files, 0)
    ELSE IF argv[1] = s_mkdir THEN BinMkdir(argv, dir, dirs, files)
    ELSE IF argv[1] = s_cp THEN BinCp(argv, dir, dirs, files)
    ELSE Completed(dirs, files, exit)

Shells == {s_bash}

\* `sh [-l] -c script`: the script is parsed and run by the inner shell
ExecShell(argv, dir, dirs, files, exit) ==
    Bind(SelectSeq(Tail(argv), LAMBDA w : w # s_l), LAMBDA rest :
    IF Len(rest) >= 2 /\ rest[1] = s_c
    THEN Bind(ShellSplit(rest[2]), LAMBDA inner :
            IF inner.ok THEN ExecArgv(inner.words, dir, dirs, files, exit)
            ELSE Completed(dirs, files, 2))
    ELSE Completed(dirs, files, 0))

\* what the remote side does with `cd dir && command`
ShellRun(command, dir, dirs, files, exit) ==
    Bind(ShellSplit(command), LAMBDA outer :
    IF ~DirExists(dirs, dir) THEN Completed(dirs, files, 1)
    ELSE IF ~outer.ok THEN Completed(dirs, files, 2)
    ELSE IF outer.words # <<>> /\ outer.words[1] \in Shells
         THEN ExecShell(outer.words, dir, dirs, files, exit)
    ELSE ExecArgv(outer.words, dir, dirs, files, exit))

\* ------------------------------------------- fabric.Connection, as used
\* A connection is [transport, command_cwds, keepalive]; transport is
\* "none" before the first open, "active" while the session is alive and
\* "inactive" after a close or a drop.  env is what the network and the
\* remote side do during one call:
\*   open_ok   whether opening a session succeeds, should one be opened
\*   outcome   "completed", "timeout" or "dropped"
\*   exit      the exit status of a program other than mkdir and cp
\*   teardown_ok  whether closing a live session succeeds
NewConnection == [transport |-> "none", command_cwds |-> <<>>, keepalive |-> None]

conn_is_connected(conn) == conn.transport = "active"

\* Connection.open: a no-op on a live session
conn_open(conn, env) ==
    IF conn_is_connected(conn) THEN [conn |-> conn, exc |-> "none"]
    ELSE IF env.open_ok THEN [conn |-> [conn EXCEPT !.transport = "active"], exc |-> "none"]
    ELSE [conn |-> conn, exc |-> "SSHException"]

\* Connection.close: a no-op without a live session
conn_close(conn, env) ==
    IF ~conn_is_connected(conn) THEN [conn |-> conn, exc |-> "none"]
    ELSE IF env.teardown_ok THEN [conn |-> [conn EXCEPT !.transport = "inactive"], exc |-> "none"]
    ELSE [conn |-> conn, exc |-> "SSHException"]

IsAbsolute(path) == path # <<>> /\ path[1] \in {"/", "~"}

\* Context.cwd: the entries of command_cwds from the last absolute one on,
\* joined; no entry means the login directory
conn_cwd(conn) ==
    Bind(conn.command_cwds, LAMBDA st :
    Bind({i \in 1..Len(st) : IsAbsolute(st[i])}, LAMBDA abs :
    Bind(IF abs = {} THEN 1 ELSE CHOOSE i \in abs : \A j \in abs : j <= i, LAMBDA first :
        IF st = <<>> THEN s_dot
        ELSE NormPath(JoinWith(<<"/">>, SubSeq(st, first, Len(st)))))))

\* entering and leaving `with connection.cd(path)`
cd_enter(conn, path) == [conn EXCEPT !.command_cwds = Append(@, path)]

cd_exit(conn) == [conn EXCEPT !.command_cwds = SubSeq(@, 1, Len(@) - 1)]

NoOut == [stdout |-> <<>>, stderr |-> <<>>, exited |-> -1]

\* Connection.run(command, hide, warn, timeout): opens the session when
\* there is none, runs `cd <cwd> && command` and waits for its end.
conn_run(conn, dirs, files, command, kwargs, env) ==
    Bind(conn_open(conn, env), LAMBDA o :
    Bind(conn_cwd(conn), LAMBDA dir :
    Bind([fn |-> "run", command |-> command, cwd |-> dir, timeout |-> kwargs.timeout,
          outcome |-> "open_failed", out |-> NoOut], LAMBDA call :
       IF o.exc # "none"
       THEN [conn |-> o.conn, dirs |-> dirs, files |-> files, exc |-> o.exc,
             out |-> NoOut, call |-> call]
       ELSE IF env.outcome = "dropped"
       THEN [conn |-> [o.conn EXCEPT !.transport = "inactive"], dirs |-> dirs,
             files |-> files, exc |-> "SSHException", out |-> NoOut,
             call |-> [call EXCEPT !.outcome = "dropped"]]
       ELSE IF env.outcome = "timeout" /\ kwargs.timeout # None
       THEN [conn |-> o.conn, dirs |-> dirs, files |-> files,
             exc |-> "CommandTimedOut", out |-> NoOut,
             call |-> [call EXCEPT !.outcome = "timeout"]]
       ELSE Bind(ShellRun(command, dir, dirs, files, env.exit), LAMBDA res :
            Bind([stdout |-> res.stdout, stderr |-> res.stderr, exited |-> res.exited],
                 LAMBDA out :
            [conn |-> o.conn, dirs |-> res.dirs, files |-> res.files,
             exc |-> IF ~kwargs.warn /\ res.exited # 0 THEN "UnexpectedExit" ELSE "none",
             out |-> out,
             call |-> [call EXCEPT !.outcome = "completed", !.out = out]])))))

\* Connection.put(local, remote): local is [stream |-> TRUE, content] for a
\* file-like object and [stream |-> FALSE, path] for a local path
conn_put(conn, dirs, files, local, src, remote, env) ==
    Bind(conn_open(conn, env), LAMBDA o :
    Bind(NormPath(remote), LAMBDA dst :
    Bind([fn |-> "put", remote |-> dst, outcome |-> "open_failed"], LAMBDA call :
       IF o.exc # "none"
       THEN [conn |-> o.conn, files |-> files, exc |-> o.exc, call |-> call]
       ELSE IF env.outcome = "dropped"
       THEN [conn |-> [o.conn EXCEPT !.transport = "inactive"], files |-> files,
             exc |-> "SSHException", call |-> [call EXCEPT !.outcome = "dropped"]]
       ELSE IF DirExists(dirs, dst) /\ src.stream
       THEN [conn |-> o.conn, files |-> files, exc |-> "ValueError",
             call |-> [call EXCEPT !.outcome = "failed"]]
       ELSE Bind(IF DirExists(dirs, dst) THEN Resolve(dst, Basename(src.path)) ELSE dst,
                 LAMBDA target :
            IF (~src.stream /\ src.path \notin DOMAIN local)
               \/ ~DirExists(dirs, Parent(target))
            THEN [conn |-> o.conn, files |-> files, exc |-> "OSError",
                  call |-> [call EXCEPT !.outcome = "failed"]]
            ELSE [conn |-> o.conn,
                  files |-> (target :> (IF src.stream THEN src.content ELSE local[src.path]))
                            @@ files,
                  exc |-> "none", call |-> [call EXCEPT !.outcome = "completed"]]))))

\* Connection.get(remote, local)
conn_get(conn, files, local, remote, dst, env) ==
    Bind(conn_open(conn, env), LAMBDA o :
    Bind(NormPath(remote), LAMBDA src :
    Bind([fn |-> "get", remote |-> src, outcome |-> "open_failed"], LAMBDA call :
       IF o.exc # "none"
       THEN [conn |-> o.conn, local |-> local, exc |-> o.exc, call |-> call]
       ELSE IF env.outcome = "dropped"
       THEN [conn |-> [o.conn EXCEPT !.transport = "inactive"], local |-> local,
             exc |-> "SSHException", call |-> [call EXCEPT !.outcome = "dropped"]]
       ELSE IF src \notin DOMAIN files
       THEN [conn |-> o.conn, local |-> local, exc |-> "OSError",
             call |-> [call EXCEPT !.outcome = "failed"]]
       ELSE [conn |-> o.conn, local |-> (dst :> files[src]) @@ local, exc |-> "none",
             call |-> [call EXCEPT !.outcome = "completed"]])))

\* ------------------------------------------------------------ RemoteHost
ConfigFields ==
    {"host", "user", "port", "config", "gateway", "forward_agent",
     "connect_timeout", "connect_kwargs", "inline_ssh_env", "timeout_execute",
     "keepalive", "shell_cmd", "login_shell"}

\* the defaults of __init__ (host is required)
DefaultArgs ==
    [host |-> <<"h">>, user |-> None, port |-> None, config |-> None,
     gateway |-> None, forward_agent |-> None, connect_timeout |-> None,
     connect_kwargs |-> None, inline_ssh_env |-> None, timeout_execute |-> None,
     keepalive |-> <<60>>, shell_cmd |-> s_bash, login_shell |-> TRUE]

\* RemoteHost.__init__: the arguments become attributes and the object
\* gets a connection of its own, not yet opened
RemoteHostNew(args) ==
    [f \in ConfigFields \cup {"class", "connection"} |->
        IF f = "class" THEN "RemoteHost"
        ELSE IF f = "connection" THEN NewConnection
        ELSE args[f]]

\* some object that is not a RemoteHost
OtherObject(args) ==
    [f \in ConfigFields \cup {"class"} |-> IF f = "class" THEN "LocalHost" ELSE args[f]]

\* MSONable.as_dict: the class and the value of every __init__ argument
as_dict(self) ==
    [f \in ConfigFields \cup {"class"} |-> self[f]]

\* equality of the whole objects, live connection included
eq_whole(self, other) ==
    IF other.class # "RemoteHost" THEN FALSE
    ELSE self = other

\* RemoteHost.__eq__
eq(self, other) ==
    IF other.class # "RemoteHost" THEN FALSE
    ELSE as_dict(self) = as_dict(other)

\* run without warn=True: a nonzero exit raises
RunKwargs_nowarn(timeout) == [hide |-> TRUE, warn |-> FALSE, timeout |-> timeout]

\* the keyword arguments of connection.run in execute
RunKwargs(timeout) == [hide |-> TRUE, warn |-> TRUE, timeout |-> timeout]

\* a directory change undone only on the normal path
WithCdLeave_onsuccess(conn, exc) == IF exc = "none" THEN cd_exit(conn) ELSE conn

\* leaving the `with self.connection.cd(workdir)` block of execute; exc is
\* the exception in flight, "none" on the normal path
WithCdLeave(conn, exc) == cd_exit(conn)

\* RemoteHost.execute
execute(self, dirs, files, command, workdir, timeout, env) ==
    LET cmd == JoinCommand(command)
        wd == IF ~TruthyStr(workdir) THEN s_dot ELSE workdir
        t == IF TruthyInt(timeout) THEN timeout ELSE self.timeout_execute
    IN Bind(conn_run(cd_enter(self.connection, wd), dirs, files,
                     remote_command(self, cmd), RunKwargs(t), env), LAMBDA r :
            [conn |-> WithCdLeave(r.conn, r.exc), dirs |-> r.dirs, files |-> r.files,
             exc |-> r.exc,
             ret |-> IF r.exc = "none"
                     THEN <<r.out.stdout, r.out.stderr, r.out.exited>> ELSE None,
             calls |-> <<r.call>>])

\* the exception classes `except Exception` catches
ExceptionClasses ==
    {"SSHException", "CommandTimedOut", "UnexpectedExit", "OSError", "ValueError"}

\* "mkdir " + ("-p " if recursive) + str(directory)
mkdir_command(directory, recursive) ==
    LET c1 == s_mkdir \o <<SP>>
        c2 == IF recursive THEN c1 \o s_p \o <<SP>> ELSE c1
    IN c2 \o directory

\* mkdir without the try/except
mkdir_noexcept(self, dirs, files, directory, recursive, exist_ok, env) ==
    Bind(execute(self, dirs, files, StrCmd(mkdir_command(directory, recursive)),
                 None, None, env), LAMBDA r :
        IF r.exc # "none" THEN r
        ELSE [r EXCEPT !.ret = (r.ret[3] = 0)])

\* RemoteHost.mkdir; exist_ok is accepted and not used
mkdir(self, dirs, files, directory, recursive, exist_ok, env) ==
    Bind(execute(self, dirs, files, StrCmd(mkdir_command(directory, recursive)),
                 None, None, env), LAMBDA r :
        IF r.exc \in ExceptionClasses
        THEN [r EXCEPT !.exc = "none", !.ret = FALSE]
        ELSE IF r.exc # "none" THEN r
        ELSE [r EXCEPT !.ret = (r.ret[3] = 0)])

\* RemoteHost.write_text_file: the content goes through an io.StringIO
write_text_file(self, dirs, files, local, filepath, content, env) ==
    Bind(conn_put(self.connection, dirs, files, local,
                  [stream |-> TRUE, content |-> content], filepath, env), LAMBDA r :
        [conn |-> r.conn, dirs |-> dirs, files |-> r.files, local |-> local,
         exc |-> r.exc, ret |-> None, calls |-> <<r.call>>])

\* RemoteHost.put
put(self, dirs, files, local, src, dst, env) ==
    Bind(conn_put(self.connection, dirs, files, local,
                  [stream |-> FALSE, path |-> src], dst, env), LAMBDA r :
        [conn |-> r.conn, dirs |-> dirs, files |-> r.files, local |-> local,
         exc |-> r.exc, ret |-> None, calls |-> <<r.call>>])

\* RemoteHost.get
get(self, dirs, files, local, src, dst, env) ==
    Bind(conn_get(self.connection, files, local, src, dst, env), LAMBDA r :
        [conn |-> r.conn, dirs |-> dirs, files |-> files, local |-> r.local,
         exc |-> r.exc, ret |-> None, calls |-> <<r.call>>])

\* a copy that fetches the file and uploads it again
copy_via_local(self, dirs, files, local, src, dst, env) ==
    Bind(conn_get(self.connection, files, local, src, <<"t", "m", "p">>, env), LAMBDA g :
        IF g.exc # "none"
        THEN [conn |-> g.conn, dirs |-> dirs, files |-> files, local |-> g.local,
              exc |-> g.exc, ret |-> None, calls |-> <<g.call>>]
        ELSE Bind(conn_put(g.conn, dirs, files, g.local,
                           [stream |-> FALSE, path |-> <<"t", "m", "p">>], dst, env),
                  LAMBDA u :
             [conn |-> u.conn, dirs |-> dirs, files |-> u.files, local |-> g.local,
              exc |-> u.exc, ret |-> None, calls |-> <<g.call, u.call>>]))

\* RemoteHost.copy
copy(self, dirs, files, local, src, dst, env) ==
    Bind(execute(self, dirs, files, ListCmd(<<s_cp, src, dst>>), None, None, env),
         LAMBDA r :
        [conn |-> r.conn, dirs |-> r.dirs, files |-> r.files, local |-> local,
         exc |-> r.exc, ret |-> None, calls |-> r.calls])

\* RemoteHost.connect
connect(self, env) ==
    Bind(conn_open(self.connection, env), LAMBDA o :
        IF o.exc # "none"
        THEN [conn |-> o.conn, exc |-> o.exc, ret |-> None, calls |-> <<>>]
        ELSE [conn |-> IF TruthyInt(self.keepalive)
                       THEN [o.conn EXCEPT !.keepalive = self.keepalive]
                       ELSE o.conn,
              exc |-> "none", ret |-> None, calls |-> <<>>])

\* close without the try/except
close_propagates(self, env) ==
    Bind(conn_close(self.connection, env), LAMBDA r :
        [conn |-> r.conn, exc |-> r.exc, ret |-> TRUE,
         calls |-> <<[fn |-> "close",
                      outcome |-> IF r.exc = "none" THEN "completed" ELSE "failed"]>>])

\* RemoteHost.close
close(self, env) ==
    Bind(conn_close(self.connection, env), LAMBDA r :
        [conn |-> r.conn,
         exc |-> IF r.exc \in ExceptionClasses THEN "none" ELSE r.exc,
         ret |-> ~(r.exc \in ExceptionClasses),
         calls |-> <<[fn |-> "close",
                      outcome |-> IF r.exc = "none" THEN "completed" ELSE "failed"]>>])

\* a liveness query that opens the session to find out
is_connected_probe(self) ==
    [conn |-> [self.connection EXCEPT !.transport = "active"], exc |-> "none",
     ret |-> TRUE, calls |-> <<>>]

\* RemoteHost.is_connected
is_connected(self) ==
    [conn |-> self.connection, exc |-> "none",
     ret |-> conn_is_connected(self.connection), calls |-> <<>>]

\* ------------------------------------------------------------- inputs
ExitCodes == {0, 7}

Env(open_ok, outcome, exit, teardown_ok) ==
    [open_ok |-> open_ok, outcome |-> outcome, exit |-> exit, teardown_ok |-> teardown_ok]

\* a program runs to its end with some exit status, or the call times out,
\* or the session drops, or no session can be opened
RunEnvs ==
    {Env(TRUE, "completed", e, TRUE) : e \in ExitCodes}
    \cup {Env(TRUE, "timeout", 0, TRUE), Env(TRUE, "dropped", 0, TRUE),
          Env(FALSE, "completed", 0, TRUE)}

\* the same for mkdir and cp, whose exit status the filesystem decides
UtilEnvs == {e \in RunEnvs : e.exit = 0}

TransferEnvs == {e \in UtilEnvs : e.outcome # "timeout"}

OpenEnvs == {Env(ok, "completed", 0, TRUE) : ok \in BOOLEAN}

CloseEnvs == {Env(TRUE, "completed", 0, ok) : ok \in BOOLEAN}

Workdirs == {None, <<"a">>}

Timeouts == {None, <<3>>}

\* ------------------------------------------------------------ actions
NoOp == [op |-> "init", h |-> "", args |-> <<>>, exc |-> "none", ret |-> None,
         calls |-> <<>>]

Record(op, h, args, r) ==
    [op |-> op, h |-> h, args |-> args, exc |-> r.exc, ret |-> r.ret, calls |-> r.calls]

SetConn(h, conn) == [hosts EXCEPT ![h].connection = conn]

IsRemoteHost(h) == hosts[h].class = "RemoteHost"

Execute(h, Commands, Wds, Tos) ==
    /\ IsRemoteHost(h)
    /\ \E command \in Commands, workdir \in Wds, timeout \in Tos, env \in RunEnvs :
           \E r \in {execute(hosts[h], remote_dirs, remote_files, command, workdir, timeout, env)} :
              /\ hosts' = SetConn(h, r.conn)
              /\ remote_dirs' = r.dirs
              /\ remote_files' = r.files
              /\ last' = Record("execute", h, <<command, workdir, timeout>>, r)
              /\ UNCHANGED local_files

Mkdir(h, Directories) ==
    /\ IsRemoteHost(h)
    /\ \E directory \in Directories, recursive \in BOOLEAN, exist_ok \in BOOLEAN,
          env \in UtilEnvs :
           \E r \in {mkdir(hosts[h], remote_dirs, remote_files, directory, recursive, exist_ok, env)} :
              /\ hosts' = SetConn(h, r.conn)
              /\ remote_dirs' = r.dirs
              /\ remote_files' = r.files
              /\ last' = Record("mkdir", h, <<directory, recursive, exist_ok>>, r)
              /\ UNCHANGED local_files

WriteTextFile(h, Paths, Contents) ==
    /\ IsRemoteHost(h)
    /\ \E filepath \in Paths, content \in Contents, env \in TransferEnvs :
           \E r \in {write_text_file(hosts[h], remote_dirs, remote_files, local_files,
                                    filepath, content, env)} :
              /\ hosts' = SetConn(h, r.conn)
              /\ remote_dirs' = r.dirs
              /\ remote_files' = r.files
              /\ local_files' = r.local
              /\ last' = Record("write_text_file", h, <<filepath, content>>, r)

Put(h, Srcs, Dsts) ==
    /\ IsRemoteHost(h)
    /\ \E src \in Srcs, dst \in Dsts, env \in TransferEnvs :
           \E r \in {put(hosts[h], remote_dirs, remote_files, local_files, src, dst, env)} :
              /\ hosts' = SetConn(h, r.conn)
              /\ remote_dirs' = r.dirs
              /\ remote_files' = r.files
              /\ local_files' = r.local
              /\ last' = Record("put", h, <<src, dst>>, r)

Get(h, Srcs, Dsts) ==
    /\ IsRemoteHost(h)
    /\ \E src \in Srcs, dst \in Dsts, env \in TransferEnvs :
           \E r \in {get(hosts[h], remote_dirs, remote_files, local_files, src, dst, env)} :
              /\ hosts' = SetConn(h, r.conn)
              /\ remote_dirs' = r.dirs
              /\ remote_files' = r.files
              /\ local_files' = r.local
              /\ last' = Record("get", h, <<src, dst>>, r)

Copy(h, Srcs, Dsts) ==
    /\ IsRemoteHost(h)
    /\ \E src \in Srcs, dst \in Dsts, env \in UtilEnvs :
           \E r \in {copy(hosts[h], remote_dirs, remote_files, local_files, src, dst, env)} :
              /\ hosts' = SetConn(h, r.conn)
              /\ remote_dirs' = r.dirs
              /\ remote_files' = r.files
              /\ local_files' = r.local
              /\ last' = Record("copy", h, <<src, dst>>, r)

Connect(h) ==
    /\ IsRemoteHost(h)
    /\ \E env \in OpenEnvs :
           \E r \in {connect(hosts[h], env)} :
              /\ hosts' = SetConn(h, r.conn)
              /\ last' = Record("connect", h, <<>>, r)
              /\ UNCHANGED <<remote_dirs, remote_files, local_files>>

Close(h) ==
    /\ IsRemoteHost(h)
    /\ \E env \in CloseEnvs :
           \E r \in {close(hosts[h], env)} :
              /\ hosts' = SetConn(h, r.conn)
              /\ last' = Record("close", h, <<>>, r)
              /\ UNCHANGED <<remote_dirs, remote_files, local_files>>

IsConnected(h) ==
    /\ IsRemoteHost(h)
    /\ \E r \in {is_connected(hosts[h])} :
          /\ hosts' = SetConn(h, r.conn)
          /\ last' = Record("is_connected", h, <<>>, r)
          /\ UNCHANGED <<remote_dirs, remote_files, local_files>>

\* the network loses a live session
TransportDrop(h) ==
    /\ IsRemoteHost(h)
    /\ conn_is_connected(hosts[h].connection)
    /\ hosts' = [hosts EXCEPT ![h].connection.transport = "inactive"]
    /\ last' = [NoOp EXCEPT !.op = "drop", !.h = h]
    /\ UNCHANGED <<remote_dirs, remote_files, local_files>>

\* ------------------------------------------------------ specifications
Self == "self"
Other == "other"

p_f == <<"f">>
p_g == <<"g">>
p_l == <<"l">>
p_m == <<"m">>
d_a == <<"a">>
d_ab == <<"a", "/", "b">>
d_a_b == <<"a", SP, "b">>
p_f_g == <<"f", SP, "g">>

InitWith(SelfArgs, Others) ==
    /\ \E a \in SelfArgs, o \in Others : hosts = (Self :> RemoteHostNew(a)) @@ (Other :> o)
    /\ remote_dirs = {}
    /\ remote_files = <<>>
    /\ local_files = (p_l :> <<"x">>)
    /\ last = NoOp

\* --- Spec: one host, every operation
SelfConfigs ==
    {DefaultArgs,
     [DefaultArgs EXCEPT !.shell_cmd = None, !.timeout_execute = <<3>>],
     [DefaultArgs EXCEPT !.login_shell = FALSE, !.keepalive = <<0>>]}

SpecCommands == {StrCmd(<<"a">>), ListCmd(<<<<"a">>, <<"b">>>>)}

Init == InitWith(SelfConfigs, {RemoteHostNew(DefaultArgs)})

Next ==
    \/ Execute(Self, SpecCommands, Workdirs, Timeouts)
    \/ Mkdir(Self, {d_a})
    \/ WriteTextFile(Self, {p_f}, {<<"x">>})
    \/ Put(Self, {p_l}, {p_f})
    \/ Get(Self, {p_f}, {p_l})
    \/ Copy(Self, {p_f}, {p_g})
    \/ Connect(Self)
    \/ Close(Self)
    \/ IsConnected(Self)
    \/ TransportDrop(Self)

Spec == Init /\ [][Next]_vars

\* --- SpecMkdir: directory creation on one host
InitMkdir == InitWith(SelfConfigs, {RemoteHostNew(DefaultArgs)})

NextMkdir ==
    \/ Mkdir(Self, {d_a, d_ab, d_a_b})
    \/ Connect(Self)
    \/ Close(Self)
    \/ TransportDrop(Self)

SpecMkdir == InitMkdir /\ [][NextMkdir]_vars

\* --- SpecFiles: file transfer and remote copy on one host
InitFiles == InitWith(SelfConfigs, {RemoteHostNew(DefaultArgs)})

NextFiles ==
    \/ WriteTextFile(Self, {p_f}, {<<>>, <<"t">>})
    \/ Put(Self, {p_l, p_m}, {p_g})
    \/ Get(Self, {p_f, p_g}, {p_m})
    \/ Copy(Self, {p_f, p_g, p_f_g}, {p_f, p_g})
    \/ Connect(Self)
    \/ Close(Self)

SpecFiles == InitFiles /\ [][NextFiles]_vars

\* --- SpecEq: two objects, each RemoteHost with a connection of its own
\* the default arguments, and each argument changed alone
Changed(f) ==
    IF f = "login_shell" THEN FALSE
    ELSE IF f \in {"port", "connect_timeout", "timeout_execute", "keepalive"} THEN <<22>>
    ELSE <<"z">>

EqArgs == {DefaultArgs} \cup {[DefaultArgs EXCEPT ![f] = Changed(f)] : f \in ConfigFields}

InitEq ==
    InitWith({DefaultArgs, [DefaultArgs EXCEPT !.port = <<22>>]},
             {RemoteHostNew(a) : a \in EqArgs} \cup {OtherObject(DefaultArgs)})

Compare(a, b) ==
    /\ IsRemoteHost(a)
    /\ last' = [NoOp EXCEPT !.op = "__eq__", !.h = a, !.args = <<b>>,
                            !.ret = eq(hosts[a], hosts[b])]
    /\ UNCHANGED <<hosts, remote_dirs, remote_files, local_files>>

NextEq ==
    \E h \in {Self, Other} :
        \/ Connect(h)
        \/ Close(h)
        \/ Execute(h, {StrCmd(<<"a">>)}, {None}, {None})
        \/ Put(h, {p_l}, {p_f})
        \/ \E o \in {Self, Other} : Compare(h, o)

SpecEq == InitEq /\ [][NextEq]_vars

\* --- SpecCmd: command construction over every short command
Alphabet == {"a", SP, SQ, DQ, BS}

RECURSIVE SeqsUpTo(_, _)
SeqsUpTo(S, n) ==
    IF n = 0 THEN {<<>>}
    ELSE LET shorter == SeqsUpTo(S, n - 1)
         IN shorter \cup {Append(q, x) : q \in shorter, x \in S}

Tokens == {<<"a">>, <<"a", SP, "a">>, <<SQ>>, <<>>}

CmdCommands ==
    {StrCmd(c) : c \in SeqsUpTo(Alphabet, MaxCmdLen)}
    \cup {ListCmd(ts) : ts \in SeqsUpTo(Tokens, MaxTokens)}

CmdConfigs ==
    {[DefaultArgs EXCEPT !.shell_cmd = sc, !.login_shell = ls] :
        sc \in {s_bash, None}, ls \in BOOLEAN}

InitCmd == InitWith(CmdConfigs, {RemoteHostNew(DefaultArgs)})

\* one call on a fresh host: the dispatched string depends on nothing else
FirstCall == last.op = "init"

NextCmd == FirstCall /\ Execute(Self, CmdCommands, {None}, {None})

SpecCmd == InitCmd /\ [][NextCmd]_vars

\* ------------------------------------------------------------- claims
Connected(h) == conn_is_connected(hosts[h].connection)

LastRun == last.calls[1]

\* the command line the remote side ends up running for a dispatched
\* string: the script given to the shell after -c, or the string itself
InnerCommand(sent) ==
    LET outer == ShellSplit(sent).words
    IN IF outer # <<>> /\ outer[1] \in Shells THEN outer[Len(outer)] ELSE sent

\* C1: a command that was dispatched and ran to its end with exit status n
\* makes execute return (stdout, stderr, n) and raise nothing, whatever n is;
\* execute raises only when no session could be opened, the session dropped
\* or the timeout ran out.
ExecuteReturnsExitCode ==
    last.op = "execute" =>
        /\ LastRun.outcome = "completed" =>
              /\ last.exc = "none"
              /\ last.ret = <<LastRun.out.stdout, LastRun.out.stderr, LastRun.out.exited>>
        /\ last.exc # "none" => LastRun.outcome \in {"open_failed", "dropped", "timeout"}

ExecuteReturnsExitCode_witness ==
    /\ last.op = "execute"
    /\ LastRun.outcome = "completed"
    /\ last.exc = "none"
    /\ last.ret[3] = 7

\* C2 as stated: the transport goes from not connected to connected only in
\* a connect() step.
OnlyConnectConnects ==
    [][(~Connected(Self) /\ Connected(Self)') => last'.op = "connect"]_vars

\* C2 amended: close, is_connected and a drop never open the transport; it
\* goes from not connected to connected only in connect() or in an operation
\* that uses the transport (execute, mkdir, copy, write_text_file, put, get).
OnlyTransportUsersConnect ==
    [][(~Connected(Self) /\ Connected(Self)') =>
          last'.op \in {"connect", "execute", "mkdir", "copy",
                        "write_text_file", "put", "get"}]_vars

OnlyTransportUsersConnect_witness ==
    /\ last.op = "is_connected"
    /\ last.ret = FALSE
    /\ hosts[Self].connection.transport = "inactive"

\* C3: execute(c, workdir=d) runs c in d, and on every exit path the
\* connection's directory stack is what it was before the call, so that an
\* execute without workdir runs in ".".
WorkdirScopedToCall ==
    /\ hosts[Self].connection.command_cwds = <<>>
    /\ last.op = "execute" =>
          LastRun.cwd = (IF last.args[2] = None THEN s_dot ELSE NormPath(last.args[2]))

WorkdirScopedToCall_witness ==
    /\ last.op = "execute"
    /\ last.exc = "CommandTimedOut"
    /\ last.args[2] = d_a
    /\ LastRun.cwd = d_a
    /\ hosts[Self].connection.command_cwds = <<>>

\* C4: mkdir raises nothing in any connection state; an exception while the
\* command is executed and a nonzero exit both give False.
MkdirNeverRaises ==
    last.op = "mkdir" =>
        /\ last.exc = "none"
        /\ last.ret \in BOOLEAN
        /\ (LastRun.outcome # "completed" \/ LastRun.out.exited # 0) => last.ret = FALSE

MkdirNeverRaises_witness ==
    /\ last.op = "mkdir"
    /\ LastRun.outcome \in {"open_failed", "dropped", "timeout"}
    /\ last.exc = "none"
    /\ last.ret = FALSE

\* C5 as stated: when the mkdir command ran to its end, mkdir returns True
\* exactly when the directory named by path exists afterwards.
MkdirTrueIffExists ==
    (last.op = "mkdir" /\ LastRun.outcome = "completed") =>
        (last.ret = TRUE <=> NormPath(last.args[1]) \in remote_dirs)

\* C6 as stated: after a mkdir with exist_ok=True returned True, the same
\* call again, run to its end, returns True and changes no directory.
MkdirIdempotent ==
    [][(/\ last.op = "mkdir"
        /\ last.ret = TRUE
        /\ last.args[3] = TRUE
        /\ last'.op = "mkdir"
        /\ last'.args = last.args
        /\ last'.calls[1].outcome = "completed")
       => (last'.ret = TRUE /\ remote_dirs' = remote_dirs)]_vars

\* C7 as stated: close() on a host that was never connected returns False.
CloseNeverConnectedFalse ==
    (last.op = "close" /\ hosts[Self].connection.transport = "none") => last.ret = FALSE

\* C7 amended: close() raises nothing in any connection state and returns
\* False exactly when the teardown failed; on a host that was never connected
\* there is nothing to tear down and it returns True.
CloseNeverRaises ==
    last.op = "close" =>
        /\ last.exc = "none"
        /\ last.ret = FALSE <=> last.calls[1].outcome = "failed"
        /\ hosts[Self].connection.transport = "none" => last.ret = TRUE

CloseNeverRaises_witness ==
    /\ last.op = "close"
    /\ hosts[Self].connection.transport = "none"
    /\ last.exc = "none"
    /\ last.ret = TRUE

\* C8: two objects are equal exactly when the other one is a RemoteHost and
\* every configuration field agrees, in every state of the two connections.
EqualIffSameConfiguration ==
    /\ \A a, b \in {Self, Other} :
          IsRemoteHost(a) =>
             (eq(hosts[a], hosts[b]) <=>
                 /\ IsRemoteHost(b)
                 /\ \A f \in ConfigFields : hosts[a][f] = hosts[b][f])
    /\ last.op = "__eq__" =>
          (last.ret <=>
              /\ IsRemoteHost(last.args[1])
              /\ \A f \in ConfigFields : hosts[last.h][f] = hosts[last.args[1]][f])

EqualIffSameConfiguration_witness ==
    /\ last.op = "__eq__"
    /\ last.h = Self
    /\ last.args = <<Other>>
    /\ last.ret = TRUE
    /\ Connected(Self)
    /\ ~Connected(Other)

\* C9: copy(src, dst) makes exactly one transport call, a run of `cp src dst`,
\* no put and no get, and leaves the local files as they were.
CopyIsOneRemoteCp ==
    /\ [](last.op = "copy" =>
             /\ Len(last.calls) = 1
             /\ LastRun.fn = "run"
             /\ InnerCommand(LastRun.command)
                    = s_cp \o <<SP>> \o last.args[1] \o <<SP>> \o last.args[2])
    /\ [][last'.op = "copy" => local_files' = local_files]_vars

CopyIsOneRemoteCp_witness ==
    /\ last.op = "copy"
    /\ last.args = <<p_f, p_g>>
    /\ LastRun.outcome = "completed"
    /\ LastRun.out.exited = 0
    /\ p_g \in DOMAIN remote_files
    /\ p_m \in DOMAIN local_files

RECURSIVE Glued(_)
\* the tokens with one blank between neighbours
Glued(ts) ==
    IF ts = <<>> THEN <<>>
    ELSE IF Len(ts) = 1 THEN ts[1]
    ELSE Glued(SubSeq(ts, 1, Len(ts) - 1)) \o <<SP>> \o ts[Len(ts)]

\* C10: the string handed to the transport is the joined command itself
\* when shell_cmd is empty; otherwise it is shell_cmd, " -l " when
\* login_shell is set, " -c ", and then one shell word whose value is the
\* whole joined command.
DispatchedCommand ==
    last.op = "execute" =>
        LET command == last.args[1]
            joined == IF command.type = "list" THEN Glued(command.tokens) ELSE command.str
            self == hosts[last.h]
            prefix == self.shell_cmd
                      \o (IF self.login_shell THEN <<SP, "-", "l", SP>> ELSE <<>>)
                      \o <<SP, "-", "c", SP>>
            sent == LastRun.command
            word == ShellSplit(SubSeq(sent, Len(prefix) + 1, Len(sent)))
        IN IF self.shell_cmd = <<>> THEN sent = joined
           ELSE /\ Len(sent) > Len(prefix)
                /\ SubSeq(sent, 1, Len(prefix)) = prefix
                /\ word.ok
                /\ word.words = <<joined>>

DispatchedCommand_witness ==
    /\ last.op = "execute"
    /\ hosts[Self].shell_cmd = s_bash
    /\ hosts[Self].login_shell
    /\ last.args[1].type = "str"
    /\ last.args[1].str = <<"a", SQ, "a">>
    /\ LastRun.command = s_bash \o <<SP, "-", "l", SP, SP, "-", "c", SP,
                                     SQ, "a", SQ, DQ, SQ, DQ, SQ, "a", SQ>>

====
